---- MODULE Spec2Model ----
(***************************************************************************)
(* Sidewars (src/src/main.rs): the per-frame simulation.                   *)
(*                                                                         *)
(* Units.  Time is counted in sixtieths of a second (Second == 60), so     *)
(* COOLDOWN = 1. is 60, the effect time 1.15 is 69 and 1/denominator is    *)
(* 60 \div denominator.  Positions are whole pixels: the frame times used  *)
(* are multiples of 20, for which 3 * speed * delta is a whole number.     *)
(*                                                                         *)
(* Bevy.  Every system added with add_system runs once per frame, in an    *)
(* order the scheduler chooses (an input of the frame); Commands (spawn,   *)
(* despawn) are queued and applied when all systems of the frame have run. *)
(* An Entity is never equal to an entity spawned later: fighter ids are    *)
(* taken from a counter and never reused, effect entities take the         *)
(* negative numbers.                                                       *)
(***************************************************************************)
EXTENDS Integers, Sequences, FiniteSets, TLC

VARIABLES
    fighters,   \* live Fighter entities: id -> [skills, hp, protection, fighting,
                \*   attack_cooldown, waiting, x, y, scale_x]
    rows,       \* the order in which a Query iterates the fighters
    money,      \* Money { left, right }
    timer,      \* SpawnZone.timer
    timeouts,   \* live Timeout entities: id -> [time_left, tied_to], and `elapsed`
                \*   (history: the time counted down so far)
    texts,      \* live entities that are neither Fighter nor Timeout (damage texts)
    cmds,       \* Commands queued in this frame, in the order they were issued
    todo,       \* the systems that have not run yet in this frame, in scheduling order
    delta,      \* Time::delta_seconds() of this frame
    width,      \* Window::width() of this frame
    nextEnt,    \* the next fighter id
    nextFx,     \* the number of effects spawned so far
    frames,     \* the number of frames completed
    sieged,     \* history: the fighters figter_siege has credited so far
    faced,      \* history: the scale.x of every fighter that has been in the store
    attacks,    \* history: fighter id -> [idle, gap], the time since its last work
                \*   item and the time between its last two (-1: there is none)
    last        \* history: what the last system that ran did

vars == <<fighters, rows, money, timer, timeouts, texts, cmds, todo, delta, width,
          nextEnt, nextFx, frames, sieged, faced, attacks, last>>

----------------------------------------------------------------------------
(* Bounds of the model *)

\* fighters spawned in a run of Spec
MaxEnts == 3
\* frames in a run of Spec
MaxFrames == 5

----------------------------------------------------------------------------
(* Program constants *)

Second == 60
COOLDOWN == 60
SPAWN_WIDTH == 64
EFFECT_TIME == 69
SPRITE_SIZE == 32
START_LEFT == 30
START_RIGHT == 25
START_TIMER == 60
WINDOW_WIDTH == 128
WINDOW_HEIGHT == 96

PRIVATE == [name |-> "PRIVATE", price |-> 2, attack |-> 15, defence |-> 15,
            hp |-> 20, strength |-> 5, speed |-> 30, siege |-> 5]
FIGHTER == [name |-> "FIGHTER", price |-> 3, attack |-> 30, defence |-> 5,
            hp |-> 15, strength |-> 10, speed |-> 35, siege |-> 7]
SHIELDSMAN == [name |-> "SHIELDSMAN", price |-> 3, attack |-> 5, defence |-> 30,
               hp |-> 30, strength |-> 5, speed |-> 20, siege |-> 1]

Presets == {PRIVATE, FIGHTER, SHIELDSMAN}

None == 0

zone_x == WINDOW_WIDTH \div 2 - SPAWN_WIDTH \div 2

----------------------------------------------------------------------------
(* Helpers *)

Abs(n) == IF n < 0 THEN -n ELSE n

Max(a, b) == IF a > b THEN a ELSE b

\* u8::saturating_sub
saturating_sub(a, b) == IF a > b THEN a - b ELSE 0

\* all orders in which the elements of S can be visited
RECURSIVE Perms(_)
Perms(S) == IF S = {} THEN {<<>>}
            ELSE UNION {{<<e>> \o p : p \in Perms(S \ {e})} : e \in S}

Range(s) == {s[i] : i \in DOMAIN s}

\* Vec::swap_remove as the fighter table does it on despawn
swap_remove(s, e) ==
    IF e \notin Range(s) THEN s
    ELSE LET i == CHOOSE i \in DOMAIN s : s[i] = e
             n == Len(s)
         IN  [k \in 1..(n - 1) |-> IF k = i THEN s[n] ELSE s[k]]

\* side of a fighter: scale.x > 0 is the left player's, scale.x < 0 the right's
Side(f) == IF f.scale_x > 0 THEN "left" ELSE "right"

----------------------------------------------------------------------------
(* Fighter::new and Fighter::moving *)

NewFighter(skills, x, y, flipped) ==
    [skills |-> skills, hp |-> skills.hp, protection |-> 0, fighting |-> None,
     attack_cooldown |-> 0, waiting |-> FALSE,
     x |-> x, y |-> y, scale_x |-> IF flipped THEN -1 ELSE 1]

moving(f) == ~f.waiting /\ f.fighting = None

----------------------------------------------------------------------------
(* bevy::sprite::collide_aabb::collide for two sprites of SPRITE_SIZE *)

collide(ax, ay, bx, by) ==
    LET h == SPRITE_SIZE \div 2
        a_min_x == ax - h
        a_max_x == ax + h
        a_min_y == ay - h
        a_max_y == ay + h
        b_min_x == bx - h
        b_max_x == bx + h
        b_min_y == by - h
        b_max_y == by + h
        \* [side, inside, depth]: the depth of "Inside" is minus infinity
        xc == IF a_min_x < b_min_x /\ a_max_x > b_min_x /\ a_max_x < b_max_x
                THEN [side |-> "Left", inside |-> FALSE, depth |-> b_min_x - a_max_x]
              ELSE IF a_min_x > b_min_x /\ a_min_x < b_max_x /\ a_max_x > b_max_x
                THEN [side |-> "Right", inside |-> FALSE, depth |-> a_min_x - b_max_x]
              ELSE [side |-> "Inside", inside |-> TRUE, depth |-> 0]
        yc == IF a_min_y < b_min_y /\ a_max_y > b_min_y /\ a_max_y < b_max_y
                THEN [side |-> "Bottom", inside |-> FALSE, depth |-> b_min_y - a_max_y]
              ELSE IF a_min_y > b_min_y /\ a_min_y < b_max_y /\ a_max_y > b_max_y
                THEN [side |-> "Top", inside |-> FALSE, depth |-> a_min_y - b_max_y]
              ELSE [side |-> "Inside", inside |-> TRUE, depth |-> 0]
        \* y_depth.abs() < x_depth.abs()
        y_less == ~yc.inside /\ (xc.inside \/ Abs(yc.depth) < Abs(xc.depth))
    IN  IF a_min_x < b_max_x /\ a_max_x > b_min_x /\ a_min_y < b_max_y /\ a_max_y > b_min_y
        THEN (IF y_less THEN yc.side ELSE xc.side)
        ELSE "None"

----------------------------------------------------------------------------
(* collision_system *)

\* HashMap::insert
MapInsert(m, k, v) == [e \in DOMAIN m \cup {k} |-> IF e = k THEN v ELSE m[e]]

\* an entry that replaces the value that is there
MapOverwrite(m, k, v) == [e \in DOMAIN m \cup {k} |-> IF e = k THEN v ELSE m[e]]

\* HashMap::entry(k).or_insert(v)
MapOrInsert(m, k, v) == IF k \in DOMAIN m THEN m ELSE MapInsert(m, k, v)

EmptyMap == [e \in {} |-> FALSE]

\* a closure that engages every overlapping pair, whatever the facings
collision_pair_any(st, l, r) ==
    LET f == st.f
    IN  IF collide(f[l].x, f[l].y, f[r].x, f[r].y) # "None"
        THEN [f |-> [f EXCEPT ![l].fighting = r, ![r].fighting = l],
              waiting |-> st.waiting]
        ELSE st

\* the closure of compare_self_mut for one pair; st = [f, waiting]
collision_pair(st, l, r) ==
    LET f == st.f
        collision == collide(f[l].x, f[l].y, f[r].x, f[r].y)
    IN  IF collision # "None"
        THEN IF f[l].scale_x = f[r].scale_x
             THEN LET left_entity == IF f[l].scale_x > 0 THEN l ELSE r
                      right_entity == IF f[l].scale_x > 0 THEN r ELSE l
                      w == IF collision \in {"Left", "Top"} THEN left_entity
                           ELSE right_entity
                  IN  [f |-> [f EXCEPT ![w].waiting = TRUE],
                       waiting |-> MapInsert(st.waiting, w, TRUE)]
             ELSE [f |-> [f EXCEPT ![l].fighting = r, ![r].fighting = l],
                   waiting |-> st.waiting]
        ELSE LET w1 == IF f[l].waiting THEN MapOrInsert(st.waiting, l, FALSE)
                       ELSE st.waiting
                 w2 == IF f[r].waiting THEN MapOrInsert(w1, r, FALSE) ELSE w1
             IN  [f |-> f, waiting |-> w2]

\* the pairs compare_self_mut visits for the slice ents: (1,2) (1,3) .. (2,3) ..
PairsOf(ents) ==
    LET n == Len(ents)
        Row(i) == [j \in 1..(n - i) |-> <<ents[i], ents[i + j]>>]
        RECURSIVE Rows(_)
        Rows(i) == IF i >= n THEN <<>> ELSE Row(i) \o Rows(i + 1)
    IN  Rows(1)

\* the sweep over the pairs, one after the other; the state after a pair is
\* worked out before the next pair is visited
RECURSIVE collision_sweep(_, _)
collision_sweep(st, pairs) ==
    IF pairs = <<>> THEN st
    ELSE CHOOSE end \in {collision_sweep(next, Tail(pairs)) :
                            next \in {collision_pair(st, Head(pairs)[1], Head(pairs)[2])}} :
            TRUE

\* the loop after the sweep: every entity mapped to false stops waiting
collision_clear(st) ==
    [e \in DOMAIN st.f |->
        IF e \in DOMAIN st.waiting /\ ~st.waiting[e]
        THEN [st.f[e] EXCEPT !.waiting = FALSE] ELSE st.f[e]]

\* the fighters after collision_system has visited `pairs` in that order
collision_result(f, pairs) ==
    collision_clear(collision_sweep([f |-> f, waiting |-> EmptyMap], pairs))

----------------------------------------------------------------------------
(* The frame *)

\* main() adds the systems in this order
Registered == <<"collision_system", "fighter_movement", "figter_siege",
                "fighting_system", "soldier_placement_system", "timeout_system">>

\* a system runs once per frame, when the scheduler gets to it; `sys` has now
\* run and logged `log`
Turn(sys) == todo # <<>> /\ Head(todo) = sys

Ran(sys, log) ==
    /\ todo' = Tail(todo)
    /\ last' = [sys |-> sys, log |-> log]

Despawn(e) == [op |-> "despawn", ent |-> e]

----------------------------------------------------------------------------
(* collision_system: the query's order, every pair once *)

collision_system ==
    /\ Turn("collision_system")
    /\ Ran("collision_system", <<>>)
    /\ fighters' = collision_result(fighters, PairsOf(rows))
    /\ UNCHANGED <<rows, money, timer, timeouts, texts, cmds, delta, width,
                   nextEnt, nextFx, frames, sieged, faced, attacks>>

----------------------------------------------------------------------------
(* fighter_movement *)

\* a movement that does not ask moving()
fighter_moved_always(f) ==
    [f EXCEPT !.x = f.x + f.scale_x * ((3 * f.skills.speed * delta) \div Second)]

fighter_moved(f) ==
    IF ~moving(f) THEN f
    ELSE [f EXCEPT
            !.x = f.x + f.scale_x * ((3 * f.skills.speed * delta) \div Second),
            !.y = ((f.y + (3 * WINDOW_HEIGHT) \div 2) % WINDOW_HEIGHT)
                    - WINDOW_HEIGHT \div 2]

fighter_movement ==
    /\ Turn("fighter_movement")
    /\ Ran("fighter_movement", <<>>)
    /\ fighters' = [e \in DOMAIN fighters |-> fighter_moved(fighters[e])]
    /\ UNCHANGED <<rows, money, timer, timeouts, texts, cmds, delta, width,
                   nextEnt, nextFx, frames, sieged, faced, attacks>>

----------------------------------------------------------------------------
(* figter_siege *)

\* Camera::world_to_viewport(..).x for the default 2d camera
viewport_x(f) == f.x + width \div 2

\* a siege that pays the side the fighter does not belong to
siege_one_opponent(st, e) ==
    LET f == fighters[e]
    IN  IF viewport_x(f) > width
        THEN [money |-> [st.money EXCEPT !.right = @ + f.skills.siege],
              cmds |-> Append(st.cmds, Despawn(e)),
              sieged |-> st.sieged \cup {e}]
        ELSE IF viewport_x(f) < 0
        THEN [money |-> [st.money EXCEPT !.left = @ + f.skills.siege],
              cmds |-> Append(st.cmds, Despawn(e)),
              sieged |-> st.sieged \cup {e}]
        ELSE st

\* the body of the loop for one fighter; st = [money, cmds, sieged]
siege_one(st, e) ==
    LET f == fighters[e]
    IN  IF viewport_x(f) > width
        THEN [money |-> [st.money EXCEPT !.left = @ + f.skills.siege],
              cmds |-> Append(st.cmds, Despawn(e)),
              sieged |-> st.sieged \cup {e}]
        ELSE IF viewport_x(f) < 0
        THEN [money |-> [st.money EXCEPT !.right = @ + f.skills.siege],
              cmds |-> Append(st.cmds, Despawn(e)),
              sieged |-> st.sieged \cup {e}]
        ELSE st

RECURSIVE siege_loop(_, _)
siege_loop(st, ents) ==
    IF ents = <<>> THEN st ELSE siege_loop(siege_one(st, Head(ents)), Tail(ents))

figter_siege ==
    LET st == siege_loop([money |-> money, cmds |-> cmds, sieged |-> sieged], rows)
    IN  /\ Turn("figter_siege")
        /\ Ran("figter_siege", <<>>)
        /\ money' = st.money
        /\ cmds' = st.cmds
        /\ sieged' = st.sieged
        /\ UNCHANGED <<fighters, rows, timer, timeouts, texts, delta, width,
                       nextEnt, nextFx, frames, faced, attacks>>

----------------------------------------------------------------------------
(* timeout_system *)

\* a timeout that removes itself and forgets the entities tied to it
timeout_one_untied(st, m) ==
    LET time_left == st.timeouts[m].time_left - delta
    IN  [timeouts |-> [st.timeouts EXCEPT ![m].time_left = time_left,
                                          ![m].elapsed = @ + delta],
         cmds |-> IF time_left <= 0 THEN Append(st.cmds, Despawn(m)) ELSE st.cmds]

\* the body of the loop for one Timeout entity; st = [timeouts, cmds].  The field
\* `elapsed` is history: the time the entity has been counted down for.
timeout_one(st, m) ==
    LET time_left == st.timeouts[m].time_left - delta
        tied == st.timeouts[m].tied_to
    IN  [timeouts |-> [st.timeouts EXCEPT ![m].time_left = time_left,
                                          ![m].elapsed = @ + delta],
         cmds |-> IF time_left <= 0
                  THEN st.cmds \o <<Despawn(m)>>
                        \o [i \in 1..Len(tied) |-> Despawn(tied[i])]
                  ELSE st.cmds]

RECURSIVE timeout_loop(_, _)
timeout_loop(st, ms) ==
    IF ms = {} THEN st
    ELSE LET m == CHOOSE m \in ms : \A o \in ms : m >= o
         IN  timeout_loop(timeout_one(st, m), ms \ {m})

timeout_system ==
    LET st == timeout_loop([timeouts |-> timeouts, cmds |-> cmds], DOMAIN timeouts)
    IN  /\ Turn("timeout_system")
        /\ Ran("timeout_system", <<>>)
        /\ timeouts' = st.timeouts
        /\ cmds' = st.cmds
        /\ UNCHANGED <<fighters, rows, money, timer, texts, delta, width,
                       nextEnt, nextFx, frames, sieged, faced, attacks>>

----------------------------------------------------------------------------
(* fighting_system *)

\* Phase A for one fighter: the cooldown counts down and stops at zero
\* a countdown that is not stopped at zero
cooled_unclamped(f) == [f EXCEPT !.attack_cooldown = f.attack_cooldown - delta]

cooled(f) ==
    [f EXCEPT !.attack_cooldown =
        IF f.attack_cooldown - delta <= 0 THEN 0 ELSE f.attack_cooldown - delta]

\* the fighters that send a work item in Phase A
Ready == {e \in DOMAIN fighters :
            fighters[e].attack_cooldown - delta <= 0 /\ fighters[e].fighting # None}

\* the work item of fighter e: (ent, fighting, fighter.skills)
WorkItem(e) == [fighter |-> e, fought_ent |-> fighters[e].fighting,
                skills |-> fighters[e].skills]

\* a contested roll whose attacker never draws 0
hit_rolls_positive(attack, defence) == {h > g : h \in {1, attack}, g \in {0, defence}}

\* gen_range(0..=attack) > gen_range(0..=defence): the outcomes that can be drawn.
\* The least and the greatest draw of each range decide which outcomes exist.
hit_rolls(attack, defence) == {h > g : h \in {0, attack}, g \in {0, defence}}

\* the draws of gen_range(1..=strength) that are followed: the least and the greatest
strength_draws(strength) == {1, strength}

\* dmg.saturating_sub(gen_range(0..=protection))
damage_rolls(strength, protection) ==
    {saturating_sub(d, r) : d \in strength_draws(strength), r \in 0..protection}

\* a subtraction of u8 that wraps around
damaged_wrapping(hp, actual_dmg) == (hp - actual_dmg) % 256

\* fought.hp = fought.hp.saturating_sub(actual_dmg)
damaged(hp, actual_dmg) == saturating_sub(hp, actual_dmg)

\* if fought.hp <= 0: the bounty goes by the sign of f_trans.scale.x
bounty(m, fought) ==
    IF fought.scale_x > 0 THEN [m EXCEPT !.left = @ + 1]
    ELSE [m EXCEPT !.right = @ + 1]

\* the text and the marker spawned for one hit
Effect(k) == [op |-> "spawn_effect", text |-> -(2 * k + 1), marker |-> -(2 * k + 2)]

\* fighter.attack_cooldown += COOLDOWN
rearmed(f) == [f EXCEPT !.attack_cooldown = @ + COOLDOWN]

\* one work item with a live opponent that is hit for actual_dmg
item_hit(st, it, actual_dmg) ==
    LET fought == st.f[it.fought_ent]
        hp == damaged(fought.hp, actual_dmg)
        dead == hp <= 0
        f1 == [st.f EXCEPT ![it.fought_ent].hp = hp]
    IN  [f |-> [f1 EXCEPT ![it.fighter] = rearmed(@)],
         money |-> IF dead THEN bounty(st.money, fought) ELSE st.money,
         cmds |-> st.cmds \o <<Effect(st.nextFx)>>
                    \o (IF dead THEN <<Despawn(it.fought_ent)>> ELSE <<>>),
         nextFx |-> st.nextFx + 1,
         log |-> Append(st.log, [fighter |-> it.fighter, fought_ent |-> it.fought_ent,
                                 kind |-> "hit", dmg |-> actual_dmg, dead |-> dead,
                                 hp_before |-> fought.hp])]

\* one work item with a live opponent that is missed
item_miss(st, it) ==
    [st EXCEPT !.f = [@ EXCEPT ![it.fighter] = rearmed(@)],
               !.log = Append(@, [fighter |-> it.fighter, fought_ent |-> it.fought_ent,
                                  kind |-> "miss", dmg |-> 0, dead |-> FALSE,
                                  hp_before |-> st.f[it.fought_ent].hp])]

\* a stale work item that clears the reference and does not re-arm the cooldown
item_stale_unarmed(st, it) ==
    [st EXCEPT !.f = [@ EXCEPT ![it.fighter].fighting = None],
               !.log = Append(@, [fighter |-> it.fighter, fought_ent |-> it.fought_ent,
                                  kind |-> "stale", dmg |-> 0, dead |-> FALSE,
                                  hp_before |-> 0])]

\* a stale work item that leaves the reference as it is
item_stale_kept(st, it) ==
    [st EXCEPT !.f = [@ EXCEPT ![it.fighter] = rearmed(@)],
               !.log = Append(@, [fighter |-> it.fighter, fought_ent |-> it.fought_ent,
                                  kind |-> "stale", dmg |-> 0, dead |-> FALSE,
                                  hp_before |-> 0])]

\* one work item whose opponent is not in the store any more
item_stale(st, it) ==
    [st EXCEPT !.f = [@ EXCEPT ![it.fighter] = rearmed([@ EXCEPT !.fighting = None])],
               !.log = Append(@, [fighter |-> it.fighter, fought_ent |-> it.fought_ent,
                                  kind |-> "stale", dmg |-> 0, dead |-> FALSE,
                                  hp_before |-> 0])]

\* the states one work item can lead to; st = [f, money, cmds, nextFx, log]
phase_b_item(st, it) ==
    IF it.fought_ent \in DOMAIN st.f
    THEN LET fought == st.f[it.fought_ent]
         IN  UNION {IF won
                    THEN {item_hit(st, it, d) :
                            d \in damage_rolls(it.skills.strength, fought.protection)}
                    ELSE {item_miss(st, it)} :
                    won \in hit_rolls(it.skills.attack, fought.skills.defence)}
    ELSE {item_stale(st, it)}

\* Phase B: the channel is drained in the order the items were sent
RECURSIVE phase_b(_, _)
phase_b(st, items) ==
    IF items = <<>> THEN {st}
    ELSE UNION {phase_b(s, Tail(items)) : s \in phase_b_item(st, Head(items))}

\* history: the time every live fighter has gone without a work item, once
\* this frame's delta is counted and the senders of `log` start from zero
attack_history(hist, log) ==
    [e \in DOMAIN fighters |->
        LET prior == IF e \in DOMAIN hist THEN hist[e] ELSE [idle |-> -1, gap |-> -1]
            ticked == IF prior.idle >= 0 THEN prior.idle + delta ELSE -1
        IN  IF \E i \in DOMAIN log : log[i].fighter = e
            THEN [idle |-> 0, gap |-> ticked]
            ELSE [idle |-> ticked, gap |-> prior.gap]]

fighting_system ==
    /\ Turn("fighting_system")
    /\ \E order \in Perms(Ready) :
        LET items == [i \in 1..Len(order) |-> WorkItem(order[i])]
            st0 == [f |-> [e \in DOMAIN fighters |-> cooled(fighters[e])],
                    money |-> money, cmds |-> cmds, nextFx |-> nextFx, log |-> <<>>]
        IN  \E st \in phase_b(st0, items) :
                /\ Ran("fighting_system", st.log)
                /\ fighters' = st.f
                /\ money' = st.money
                /\ cmds' = st.cmds
                /\ nextFx' = st.nextFx
                /\ attacks' = attack_history(attacks, st.log)
                /\ UNCHANGED <<rows, timer, timeouts, texts, delta, width,
                               nextEnt, frames, sieged, faced>>

----------------------------------------------------------------------------
(* soldier_placement_system *)

\* the inputs of frame k: the k-th entry of the script, the last one from then on
At(script, k) == script[IF k > Len(script) THEN Len(script) ELSE k]

SpawnFighter(e, f) == [op |-> "spawn_fighter", ent |-> e, fighter |-> f]

button_skills(button) ==
    CASE button = "Left" -> FIGHTER
      [] button = "Middle" -> PRIVATE
      [] button = "Right" -> SHIELDSMAN

\* money.left -= skills.price
debit_left(m, skills) == [m EXCEPT !.left = @ - skills.price]

\* money.right -= skills.price
debit_right(m, skills) == [m EXCEPT !.right = @ - skills.price]

\* the body of the loop over the buttons just pressed; st = [money, cmds, nextEnt, log]
manual_one(st, button, y) ==
    IF button \notin {"Left", "Middle", "Right"} THEN st
    ELSE LET skills == button_skills(button)
         IN  [money |-> debit_left(st.money, skills),
              cmds |-> Append(st.cmds,
                        SpawnFighter(st.nextEnt, NewFighter(skills, -zone_x, y, FALSE))),
              nextEnt |-> st.nextEnt + 1,
              log |-> Append(st.log, [side |-> "left", price |-> skills.price,
                                      balance |-> st.money.left])]

RECURSIVE manual_loop(_, _, _)
manual_loop(st, buttons, y) ==
    IF buttons = <<>> THEN st
    ELSE manual_loop(manual_one(st, Head(buttons), y), Tail(buttons), y)

\* the guard of the manual path
manual_allowed(m, location_x) ==
    location_x < -zone_x + SPAWN_WIDTH \div 2 /\ m.left >= 1

manual_spawns(st, location, buttons) ==
    IF manual_allowed(st.money, location.x)
    THEN manual_loop(st, buttons, location.y) ELSE st

\* the guard of the while loop
auto_allowed(t, m) == t < 0 /\ m.right >= 1

\* spawn_zone.timer += 1. / denominator
timer_refill(m) == Second \div Max(m.right \div 7, 1)

\* the body of the while loop with the preset and the lane that were drawn
auto_one(st, skills, y) ==
    [money |-> debit_right(st.money, skills),
     timer |-> st.timer + timer_refill(st.money),
     cmds |-> Append(st.cmds,
                SpawnFighter(st.nextEnt, NewFighter(skills, zone_x, y, TRUE))),
     nextEnt |-> st.nextEnt + 1,
     log |-> Append(st.log, [side |-> "right", price |-> skills.price,
                             balance |-> st.money.right])]

\* the states the while loop can end in, for the presets and lanes whose draw is
\* followed; no fighter beyond id env.cap is spawned
RECURSIVE auto_spawns(_, _)
auto_spawns(st, env) ==
    IF auto_allowed(st.timer, st.money)
    THEN IF st.nextEnt > env.cap THEN {}
         ELSE UNION {auto_spawns(auto_one(st, skills, y), env) :
                        skills \in env.presets, y \in At(env.ys, frames + 1)}
    ELSE {st}

\* spawn_zone.timer -= time.delta_seconds()
timer_tick(t) == t - delta

soldier_placement_system(env) ==
    /\ Turn("soldier_placement_system")
    /\ \E location \in env.mouse, buttons \in At(env.buttons, frames + 1) :
        LET st0 == [money |-> money, cmds |-> cmds, nextEnt |-> nextEnt, log |-> <<>>]
            st1 == manual_spawns(st0, location, buttons)
            st2 == [money |-> st1.money, timer |-> timer_tick(timer), cmds |-> st1.cmds,
                    nextEnt |-> st1.nextEnt, log |-> st1.log]
        IN  /\ st1.nextEnt <= env.cap + 1
            /\ \E st \in auto_spawns(st2, env) :
                /\ Ran("soldier_placement_system", st.log)
                /\ money' = st.money
                /\ timer' = st.timer
                /\ cmds' = st.cmds
                /\ nextEnt' = st.nextEnt
                /\ UNCHANGED <<fighters, rows, timeouts, texts, delta, width,
                               nextFx, frames, sieged, faced, attacks>>

----------------------------------------------------------------------------
(* The end of the frame: the queued Commands are applied in order, and the *)
(* next frame gets its elapsed time and its window size.  A run ends with  *)
(* the frame env.frames (the application is closed).                       *)

Without(f, e) == [k \in DOMAIN f \ {e} |-> f[k]]

With(f, e, v) == [k \in DOMAIN f \cup {e} |-> IF k = e THEN v ELSE f[k]]

\* st = [fighters, rows, timeouts, texts]
apply_command(st, c) ==
    CASE c.op = "despawn" ->
            [fighters |-> Without(st.fighters, c.ent),
             rows |-> swap_remove(st.rows, c.ent),
             timeouts |-> Without(st.timeouts, c.ent),
             texts |-> st.texts \ {c.ent}]
      [] c.op = "spawn_fighter" ->
            [st EXCEPT !.fighters = With(@, c.ent, c.fighter),
                       !.rows = Append(@, c.ent)]
      [] c.op = "spawn_effect" ->
            [st EXCEPT !.texts = @ \cup {c.text},
                       !.timeouts = With(@, c.marker,
                            [time_left |-> EFFECT_TIME, tied_to |-> <<c.text>>,
                             elapsed |-> 0])]

RECURSIVE apply_commands(_, _)
apply_commands(st, cs) ==
    IF cs = <<>> THEN st ELSE apply_commands(apply_command(st, Head(cs)), Tail(cs))

apply_system_buffers(env) ==
    LET st == apply_commands([fighters |-> fighters, rows |-> rows,
                              timeouts |-> timeouts, texts |-> texts], cmds)
    IN  /\ todo = <<>>
        /\ frames < env.frames
        /\ fighters' = st.fighters
        /\ rows' = st.rows
        /\ timeouts' = st.timeouts
        /\ texts' = st.texts
        /\ cmds' = <<>>
        /\ todo' \in (IF frames + 1 < env.frames THEN env.orders ELSE {<<>>})
        /\ frames' = frames + 1
        /\ delta' \in At(env.deltas, frames + 2)
        /\ width' \in At(env.widths, frames + 2)
        /\ last' = [sys |-> "apply_system_buffers", log |-> <<>>]
        /\ faced' = [e \in DOMAIN faced \cup DOMAIN st.fighters |->
                        IF e \in DOMAIN faced THEN faced[e] ELSE st.fighters[e].scale_x]
        /\ UNCHANGED <<money, timer, nextEnt, nextFx, sieged, attacks>>

----------------------------------------------------------------------------
(* setup, and the specifications *)

setup(env) ==
    /\ fighters = [e \in {} |-> 0]
    /\ rows = <<>>
    /\ money = [left |-> START_LEFT, right |-> START_RIGHT]
    /\ timer = START_TIMER
    /\ timeouts = [e \in {} |-> 0]
    /\ texts = {}
    /\ cmds = <<>>
    /\ todo \in env.orders
    /\ delta \in At(env.deltas, 1)
    /\ width = WINDOW_WIDTH
    /\ nextEnt = 1
    /\ nextFx = 0
    /\ frames = 0
    /\ sieged = {}
    /\ faced = [e \in DOMAIN fighters |-> fighters[e].scale_x]
    /\ attacks = [e \in {} |-> 0]
    /\ last = [sys |-> "setup", log |-> <<>>]

\* The inputs of Spec.  The first frame takes a second and the later ones a third
\* of a second; the window keeps its size; the systems run in the order of
\* main(); the cursor is inside the left spawn zone or outside it; no button, one
\* button or two buttons are pressed in a frame; the autonomous side draws one of
\* two lanes, the nearer of which overlaps the cursor's lane.
Env == [deltas |-> <<{60}, {20}>>,
        widths |-> <<{WINDOW_WIDTH}>>,
        orders |-> {Registered},
        mouse |-> {[x |-> -zone_x, y |-> 0], [x |-> 0, y |-> 0]},
        buttons |-> <<{<<>>, <<"Left">>, <<"Other">>, <<"Middle", "Right">>}>>,
        presets |-> Presets,
        ys |-> <<{20, 40}>>,
        cap |-> MaxEnts,
        frames |-> MaxFrames]

Init == setup(Env)

Next ==
    \/ collision_system
    \/ fighter_movement
    \/ figter_siege
    \/ fighting_system
    \/ soldier_placement_system(Env)
    \/ timeout_system
    \/ apply_system_buffers(Env)

Spec == Init /\ [][Next]_vars

----------------------------------------------------------------------------
(* A duel.  The left player buys one FIGHTER in the first frame and nothing *)
(* afterwards.  The frames take 1 s, 1/3 s, 1/3 s, 1 s and 1/3 s: a fighter *)
(* engaged in the third frame attacks again in the fourth, and the effect   *)
(* of a hit of the third frame is 1 s old after the fourth frame and 4/3 s  *)
(* old after the fifth.  The autonomous side draws the lane next to the     *)
(* left fighter's in the first three frames and a lane away from it later.  *)

\* fighters spawned in a run of SpecDuel
MaxDuelEnts == 8
\* frames in a run of SpecDuel
MaxDuelFrames == 5

EnvDuel == [deltas |-> <<{60}, {20}, {20}, {60}, {20}>>,
            widths |-> <<{WINDOW_WIDTH}>>,
            orders |-> {Registered},
            mouse |-> {[x |-> -zone_x, y |-> 0]},
            buttons |-> <<{<<"Left">>}, {<<>>}>>,
            presets |-> Presets,
            ys |-> <<{20}, {20}, {20}, {-40}>>,
            cap |-> MaxDuelEnts,
            frames |-> MaxDuelFrames]

InitDuel == setup(EnvDuel)

NextDuel ==
    \/ collision_system
    \/ fighter_movement
    \/ figter_siege
    \/ fighting_system
    \/ soldier_placement_system(EnvDuel)
    \/ timeout_system
    \/ apply_system_buffers(EnvDuel)

SpecDuel == InitDuel /\ [][NextDuel]_vars

----------------------------------------------------------------------------
(* A stall.  The first frame takes 8 s, as after the window was held, and   *)
(* the later ones 1/3 s; the left player does nothing.  The autonomous side *)
(* draws FIGHTER or PRIVATE, the two prices there are, in one lane.         *)

\* fighters spawned in a run of SpecStall
MaxStallEnts == 12
\* frames in a run of SpecStall
MaxStallFrames == 3

EnvStall == [deltas |-> <<{480}, {20}>>,
             widths |-> <<{WINDOW_WIDTH}>>,
             orders |-> {Registered},
             mouse |-> {[x |-> 0, y |-> 0]},
             buttons |-> <<{<<>>}>>,
             presets |-> {FIGHTER, PRIVATE},
             ys |-> <<{20}>>,
             cap |-> MaxStallEnts,
             frames |-> MaxStallFrames]

InitStall == setup(EnvStall)

NextStall ==
    \/ collision_system
    \/ fighter_movement
    \/ figter_siege
    \/ fighting_system
    \/ soldier_placement_system(EnvStall)
    \/ timeout_system
    \/ apply_system_buffers(EnvStall)

SpecStall == InitStall /\ [][NextStall]_vars

----------------------------------------------------------------------------
(* A resize.  The left player buys one PRIVATE in the first frame; the      *)
(* autonomous side draws PRIVATE, next to the left fighter's lane at first  *)
(* and away from it later.  The two meet in the fourth frame; with the      *)
(* fifth frame the window is made NARROW wide, which leaves the left        *)
(* fighter beyond the right edge.  The sixth frame takes 1/3 s or 1 s.      *)

\* the width of the window after it was resized
NARROW == 40
\* fighters spawned in a run of SpecResize
MaxResizeEnts == 12
\* frames in a run of SpecResize
MaxResizeFrames == 7

EnvResize == [deltas |-> <<{60}, {20}, {20}, {20}, {60}, {20, 60}, {60}>>,
              widths |-> <<{WINDOW_WIDTH}, {WINDOW_WIDTH}, {WINDOW_WIDTH},
                           {WINDOW_WIDTH}, {NARROW}>>,
              orders |-> {Registered},
              mouse |-> {[x |-> -zone_x, y |-> 0]},
              buttons |-> <<{<<"Middle">>}, {<<>>}>>,
              presets |-> {PRIVATE},
              ys |-> <<{20}, {20}, {-40}>>,
              cap |-> MaxResizeEnts,
              frames |-> MaxResizeFrames]

InitResize == setup(EnvResize)

NextResize ==
    \/ collision_system
    \/ fighter_movement
    \/ figter_siege
    \/ fighting_system
    \/ soldier_placement_system(EnvResize)
    \/ timeout_system
    \/ apply_system_buffers(EnvResize)

SpecResize == InitResize /\ [][NextResize]_vars

----------------------------------------------------------------------------
(* A brawl.  Two fighters of opposite sides stand in the store at full hp,  *)
(* their boxes overlapping, with skills no preset has: attack 255 and       *)
(* defence 0, hp and strength drawn from small ranges.  One frame of 1/3 s  *)
(* is run; nobody presses a button.                                         *)

\* the greatest hp of a fighter of SpecBrawl
MaxBrawlHp == 3
\* the greatest strength of a fighter of SpecBrawl
MaxBrawlStrength == 2
\* frames in a run of SpecBrawl
MaxBrawlFrames == 1

\* a Skills value with attack 255 and defence 0
Brawler(hp, strength) ==
    [name |-> "BRAWLER", price |-> 0, attack |-> 255, defence |-> 0, hp |-> hp,
     strength |-> strength, speed |-> 30, siege |-> 0]

EnvBrawl == [deltas |-> <<{20}>>,
             widths |-> <<{WINDOW_WIDTH}>>,
             orders |-> {Registered},
             mouse |-> {[x |-> 0, y |-> 0]},
             buttons |-> <<{<<>>}>>,
             presets |-> Presets,
             ys |-> <<{20}>>,
             cap |-> 2,
             frames |-> MaxBrawlFrames]

InitBrawl ==
    /\ \E ha, hb \in 1..MaxBrawlHp, sa, sb \in 1..MaxBrawlStrength, bx \in {0, 20} :
        fighters = (1 :> NewFighter(Brawler(ha, sa), 0, 0, FALSE))
                    @@ (2 :> NewFighter(Brawler(hb, sb), bx, 20, TRUE))
    /\ rows = <<1, 2>>
    /\ money = [left |-> START_LEFT, right |-> START_RIGHT]
    /\ timer = START_TIMER
    /\ timeouts = [e \in {} |-> 0]
    /\ texts = {}
    /\ cmds = <<>>
    /\ todo \in EnvBrawl.orders
    /\ delta \in At(EnvBrawl.deltas, 1)
    /\ width = WINDOW_WIDTH
    /\ nextEnt = 3
    /\ nextFx = 0
    /\ frames = 0
    /\ sieged = {}
    /\ faced = [e \in DOMAIN fighters |-> fighters[e].scale_x]
    /\ attacks = [e \in {} |-> 0]
    /\ last = [sys |-> "setup", log |-> <<>>]

NextBrawl ==
    \/ collision_system
    \/ fighter_movement
    \/ figter_siege
    \/ fighting_system
    \/ soldier_placement_system(EnvBrawl)
    \/ timeout_system
    \/ apply_system_buffers(EnvBrawl)

SpecBrawl == InitBrawl /\ [][NextBrawl]_vars

----------------------------------------------------------------------------
(* Two lanes.  The left player does nothing; the autonomous side draws its  *)
(* first fighters in the middle lane and the later ones 25 pixels above it, *)
(* so that fighters of one side overlap at different heights.               *)

\* fighters spawned in a run of SpecLanes
MaxLaneEnts == 4
\* frames in a run of SpecLanes
MaxLaneFrames == 4

EnvLanes == [deltas |-> <<{60}, {20}>>,
             widths |-> <<{WINDOW_WIDTH}>>,
             orders |-> {Registered},
             mouse |-> {[x |-> 0, y |-> 0]},
             buttons |-> <<{<<>>}>>,
             presets |-> Presets,
             ys |-> <<{0}, {0}, {25}>>,
             cap |-> MaxLaneEnts,
             frames |-> MaxLaneFrames]

InitLanes == setup(EnvLanes)

NextLanes ==
    \/ collision_system
    \/ fighter_movement
    \/ figter_siege
    \/ fighting_system
    \/ soldier_placement_system(EnvLanes)
    \/ timeout_system
    \/ apply_system_buffers(EnvLanes)

SpecLanes == InitLanes /\ [][NextLanes]_vars

----------------------------------------------------------------------------
(* The blocker leaves.  The left player buys two fighters on the same spot in *)
(* the first frame; the window is made narrower in the second frame, before   *)
(* the autonomous side has spawned anything, so that the one that walks ahead *)
(* is beyond the edge while the one that waits for it stays in the window.    *)

\* the width the window is given in the second frame
TIGHT == 72
\* fighters spawned in a run of SpecSolo
MaxSoloEnts == 5
\* frames in a run of SpecSolo
MaxSoloFrames == 5

EnvSolo == [deltas |-> <<{20}, {20, 40}, {20}>>,
            widths |-> <<{WINDOW_WIDTH}, {TIGHT}>>,
            orders |-> {Registered},
            mouse |-> {[x |-> -zone_x, y |-> 0]},
            buttons |-> <<{<<"Left", "Right">>, <<"Right", "Left">>,
                           <<"Left", "Middle">>}, {<<>>}>>,
            presets |-> Presets,
            ys |-> <<{20}>>,
            cap |-> MaxSoloEnts,
            frames |-> MaxSoloFrames]

InitSolo == setup(EnvSolo)

NextSolo ==
    \/ collision_system
    \/ fighter_movement
    \/ figter_siege
    \/ fighting_system
    \/ soldier_placement_system(EnvSolo)
    \/ timeout_system
    \/ apply_system_buffers(EnvSolo)

SpecSolo == InitSolo /\ [][NextSolo]_vars

----------------------------------------------------------------------------
(* What the claims speak of *)

\* the sum of a sequence of numbers
RECURSIVE SeqSum(_)
SeqSum(s) == IF s = <<>> THEN 0 ELSE Head(s) + SeqSum(Tail(s))

\* the sum of f over the set S
RECURSIVE SetSum(_, _)
SetSum(f, S) == IF S = {} THEN 0
                ELSE LET e == CHOOSE e \in S : TRUE IN f[e] + SetSum(f, S \ {e})

\* the entities with a despawn queued in this frame
Removed == {cmds[i].ent : i \in {j \in DOMAIN cmds : cmds[j].op = "despawn"}}

\* the fighters that are in the store and stay in it at the end of this frame
Staying == DOMAIN fighters \ Removed

\* beyond the edge the fighter walks towards
CrossedFar(f) ==
    \/ f.scale_x > 0 /\ viewport_x(f) > width
    \/ f.scale_x < 0 /\ viewport_x(f) < 0

\* beyond either edge
CrossedAny(f) == viewport_x(f) > width \/ viewport_x(f) < 0

----------------------------------------------------------------------------
(* C3 *)

\* C3: after collision_system has run in a frame, every fighter a whose
\* fighting reference names a fighter b that is not removed in this frame is
\* named by b's fighting reference in turn.
C3_MutualEngagement ==
    last.sys = "collision_system" =>
        \A a \in DOMAIN fighters : \A b \in Staying :
            fighters[a].fighting = b => fighters[b].fighting = a

----------------------------------------------------------------------------
(* C4 *)

\* every way to visit the pairs of `pairs`: any order, either member first
Visits(pairs) ==
    LET n == Len(pairs)
        flip(q, turned) == [i \in 1..n |->
            IF i \in turned THEN <<q[i][2], q[i][1]>> ELSE q[i]]
    IN  {flip([i \in 1..n |-> pairs[p[i]]], turned) :
            p \in Perms(1..n), turned \in SUBSET (1..n)}

\* the waiting flag and the fighting reference of every fighter
Assignment(f) == [e \in DOMAIN f |-> <<f[e].waiting, f[e].fighting>>]

\* C4: for the fighters of any reachable state, collision_system ends with the
\* same waiting flags and fighting references whatever the order in which it
\* visits the pairs and whichever member of a pair comes first.
C4_OrderIndependent ==
    Turn("collision_system") =>
        \A v \in Visits(PairsOf(rows)) :
            Assignment(collision_result(fighters, v))
                = Assignment(collision_result(fighters, PairsOf(rows)))

----------------------------------------------------------------------------
(* C6 *)

\* the siege values of the fighters of S
SiegeOf(S) == SetSum([e \in S |-> fighters[e].skills.siege], S)

\* the fighters of a side that are beyond the edge they walk towards
Arrived(side) ==
    {e \in DOMAIN fighters : Side(fighters[e]) = side /\ CrossedFar(fighters[e])}

\* the despawn commands a step adds
NewlyRemoved == {cmds'[i].ent : i \in {j \in DOMAIN cmds' :
                    j > Len(cmds) /\ cmds'[j].op = "despawn"}}

\* C6: a step of figter_siege removes exactly the fighters that are beyond the
\* far edge, credits each one's siege value to its own side and to no other,
\* has credited none of them before, and neither removes nor credits a fighter
\* that is beyond no edge.
C6_SiegeCredit ==
    [][Turn("figter_siege") =>
        /\ NewlyRemoved = Arrived("left") \cup Arrived("right")
        /\ money'.left = money.left + SiegeOf(Arrived("left"))
        /\ money'.right = money.right + SiegeOf(Arrived("right"))
        /\ (Arrived("left") \cup Arrived("right")) \cap sieged = {}
        /\ \A e \in DOMAIN fighters :
            ~CrossedAny(fighters[e]) => e \notin NewlyRemoved /\ e \notin sieged'
      ]_vars

\* a fighter of each side has been credited, the left one in the frame at hand
C6_Witness ==
    /\ last.sys = "figter_siege"
    /\ \E e \in DOMAIN fighters \cap sieged : Side(fighters[e]) = "left"

\* the same with a fighter of the right side
C6_WitnessRight ==
    /\ last.sys = "figter_siege"
    /\ \E e \in DOMAIN fighters \cap sieged : Side(fighters[e]) = "right"

----------------------------------------------------------------------------
(* C2 *)

\* the damage the hits of `log` did to fighter e
DamageTo(e, log) ==
    SeqSum([i \in 1..Len(log) |->
                IF log[i].kind = "hit" /\ log[i].fought_ent = e THEN log[i].dmg ELSE 0])

\* C2: every fighter in the store has 0 <= hp <= skills.hp; a fighter enters the
\* store with hp = skills.hp; the hp of a fighter changes in fighting_system
\* only, to its former hp less the damage of the hits it took, stopping at zero:
\* it never increases and never wraps around.
C2_HpSaturating ==
    [][\A e \in DOMAIN fighters' :
        LET f == fighters'[e]
        IN  /\ 0 <= f.hp
            /\ f.hp <= f.skills.hp
            /\ IF e \in DOMAIN fighters
               THEN f.hp = IF last'.sys = "fighting_system"
                           THEN saturating_sub(fighters[e].hp, DamageTo(e, last'.log))
                           ELSE fighters[e].hp
               ELSE f.hp = f.skills.hp]_vars

\* a hit did more damage than its defender had hp left, and the defender is at 0
C2_Witness ==
    /\ last.sys = "fighting_system"
    /\ \E i \in DOMAIN last.log :
        /\ last.log[i].kind = "hit"
        /\ last.log[i].hp_before > 0
        /\ last.log[i].dmg > last.log[i].hp_before
        /\ fighters[last.log[i].fought_ent].hp = 0

----------------------------------------------------------------------------
(* C5 *)

\* the attacks of `log` that brought a defender of `side` from hp > 0 to zero
Kills(log, side) ==
    {i \in DOMAIN log : /\ log[i].kind = "hit"
                        /\ log[i].dead
                        /\ log[i].hp_before > 0
                        /\ Side(fighters[log[i].fought_ent]) = side}

\* C5: a run of fighting_system credits each side with one unit for every attack
\* that brought a defender of the other side to zero hp, and with nothing else,
\* and every such defender is queued for removal.
C5_KillBounty ==
    [][last'.sys = "fighting_system" =>
        /\ money'.left = money.left + Cardinality(Kills(last'.log, "right"))
        /\ money'.right = money.right + Cardinality(Kills(last'.log, "left"))
        /\ \A i \in Kills(last'.log, "left") \cup Kills(last'.log, "right") :
                last'.log[i].fought_ent \in NewlyRemoved]_vars

----------------------------------------------------------------------------
(* C7 *)

\* C7: a Timeout and the entity tied to it are in the store together; while the
\* Timeout has been counted down for less than EFFECT_TIME neither is queued for
\* removal; once it has been counted down for EFFECT_TIME or more, both are queued
\* for removal by the timeout_system run of this frame, so that both leave the
\* store at the end of that frame; and no tied entity stays without its Timeout.
C7_TiedTimeout ==
    /\ \A m \in DOMAIN timeouts :
        LET x == timeouts[m].tied_to[1]
        IN  /\ Len(timeouts[m].tied_to) = 1
            /\ x \in texts
            /\ timeouts[m].elapsed < EFFECT_TIME => m \notin Removed /\ x \notin Removed
            /\ timeouts[m].elapsed >= EFFECT_TIME =>
                    /\ m \in Removed
                    /\ x \in Removed
                    /\ "timeout_system" \notin Range(todo)
    /\ \A x \in texts : \E m \in DOMAIN timeouts : x \in Range(timeouts[m].tied_to)

\* a frame has ended with the first effect and its text still in the store,
\* counted down for a second
C7_WitnessPresent ==
    /\ last.sys = "apply_system_buffers"
    /\ Effect(0).marker \in DOMAIN timeouts
    /\ timeouts[Effect(0).marker].elapsed = Second
    /\ Effect(0).text \in texts

\* a frame has ended in which the first effect and its text left the store
C7_Witness ==
    /\ last.sys = "apply_system_buffers"
    /\ nextFx > 0
    /\ Effect(0).marker \notin DOMAIN timeouts
    /\ Effect(0).text \notin texts

----------------------------------------------------------------------------
(* C1, C8, C9 *)

\* the spawns of the placement run that has just ended
Spawns == IF last.sys = "soldier_placement_system" THEN last.log ELSE <<>>

\* C1: both balances are >= 0 in every state, and no spawn is performed whose
\* price exceeds the balance its side has at that moment.
C1_NonNegative ==
    /\ money.left >= 0
    /\ money.right >= 0
    /\ \A i \in DOMAIN Spawns : Spawns[i].price <= Spawns[i].balance

\* the price of the cheapest preset
Cheapest == CHOOSE p \in {s.price : s \in Presets} : \A s \in Presets : p <= s.price

\* C8: soldier_placement_system performs no autonomous spawn at a moment at which
\* money.right is below the price of the cheapest preset.
C8_NoSpawnBelowCheapest ==
    \A i \in DOMAIN Spawns :
        Spawns[i].side = "right" => Spawns[i].balance >= Cheapest

\* C9: a run of soldier_placement_system that starts with money.right = 0 spawns
\* nothing for the autonomous side and does not take the spawn timer further
\* below zero: the timer ends at zero or above, or where it was.
C9_TimerClamped ==
    [][(last'.sys = "soldier_placement_system" /\ money.right = 0) =>
        /\ money'.right = money.right
        /\ timer' >= (IF timer < 0 THEN timer ELSE 0)]_vars

----------------------------------------------------------------------------
(* C10 *)

\* fighter x refers to an opponent that was removed by figter_siege and has left
\* the store
StaleOn(x) ==
    /\ fighters[x].fighting # None
    /\ fighters[x].fighting \in sieged
    /\ fighters[x].fighting \notin DOMAIN fighters

\* C10 as stated: in a frame that starts with x referring to an opponent removed
\* by lane crossing, in particular in the first frame after the removal,
\* fighting_system clears the reference, whatever x's attack_cooldown is.
C10_ClearedNextTick ==
    [][last'.sys = "fighting_system" =>
        \A x \in DOMAIN fighters : StaleOn(x) => fighters'[x].fighting = None]_vars

\* C10, amended: when x refers to an opponent removed by lane crossing,
\* fighting_system clears the reference in the first frame in which x's
\* attack_cooldown has run out, and leaves it in place in the frames before;
\* x's work item is handled as stale, and a run of fighting_system that handles
\* stale items only changes no hp and no balance.
C10_ClearedWhenCooled ==
    [][last'.sys = "fighting_system" =>
        /\ \A x \in DOMAIN fighters : StaleOn(x) =>
            IF fighters[x].attack_cooldown - delta <= 0
            THEN /\ fighters'[x].fighting = None
                 /\ \E i \in DOMAIN last'.log : last'.log[i].fighter = x
                 /\ \A i \in DOMAIN last'.log :
                        last'.log[i].fighter = x => last'.log[i].kind = "stale"
            ELSE /\ fighters'[x].fighting = fighters[x].fighting
                 /\ \A i \in DOMAIN last'.log : last'.log[i].fighter # x
        /\ (\A i \in DOMAIN last'.log : last'.log[i].kind = "stale") =>
            /\ money' = money
            /\ \A e \in DOMAIN fighters : fighters'[e].hp = fighters[e].hp]_vars

\* the reference to an opponent removed by lane crossing has been cleared in a
\* frame later than the one after the removal: the referrer has its cooldown
\* again, and the frame before took a third of a second
C10_Witness ==
    /\ last.sys = "fighting_system"
    /\ frames = MaxResizeFrames - 1
    /\ \E i \in DOMAIN last.log :
        /\ last.log[i].kind = "stale"
        /\ last.log[i].fought_ent \in sieged
        /\ fighters[last.log[i].fighter].fighting = None
        /\ fighters[last.log[i].fighter].attack_cooldown = COOLDOWN

\* a frame has passed in which the opponent was gone and the reference stayed
C10_WitnessKept ==
    /\ last.sys = "fighting_system"
    /\ \E x \in DOMAIN fighters : StaleOn(x) /\ fighters[x].attack_cooldown > 0

----------------------------------------------------------------------------
(* C11 *)

\* the work items of `log` of the given kind
Items(log, kind) == {i \in DOMAIN log : log[i].kind = kind}

\* C11: in a run of fighting_system every stale work item leaves its attacker
\* with fighting = None and attack_cooldown = COOLDOWN, and the stale items
\* account for nothing else: every hp is the former hp less the damage of the
\* hits, the balances move by the deaths among the hits only, one effect is
\* spawned per hit, and only defenders brought to zero by a hit are removed.
C11_StaleItem ==
    [][last'.sys = "fighting_system" =>
        LET log == last'.log
            deaths == {i \in Items(log, "hit") : log[i].dead}
        IN  /\ \A i \in Items(log, "stale") :
                /\ log[i].fought_ent \notin DOMAIN fighters
                /\ fighters'[log[i].fighter].fighting = None
                /\ fighters'[log[i].fighter].attack_cooldown = COOLDOWN
            /\ \A e \in DOMAIN fighters :
                fighters'[e].hp = saturating_sub(fighters[e].hp, DamageTo(e, log))
            /\ money'.left + money'.right
                    = money.left + money.right + Cardinality(deaths)
            /\ nextFx' = nextFx + Cardinality(Items(log, "hit"))
            /\ Len(cmds') = Len(cmds) + Cardinality(Items(log, "hit"))
                                + Cardinality(deaths)
            /\ NewlyRemoved = {log[i].fought_ent : i \in deaths}]_vars

\* fighting_system has handled a stale work item
C11_Witness ==
    /\ last.sys = "fighting_system"
    /\ Items(last.log, "stale") # {}

----------------------------------------------------------------------------
(* C12 *)

\* a fighter without its position
Rest(f) == [k \in DOMAIN f \ {"x", "y"} |-> f[k]]

\* C12: a run of fighter_movement leaves the x and y of every fighter that is
\* waiting or fighting as they are, takes the x of every other fighter forward
\* in the direction it faces, and changes nothing but positions: no hp, flag,
\* reference, cooldown, balance, timer or command.
C12_MovementOnly ==
    [][last'.sys = "fighter_movement" =>
        /\ DOMAIN fighters' = DOMAIN fighters
        /\ \A e \in DOMAIN fighters :
            LET f == fighters[e]
                g == fighters'[e]
            IN  /\ Rest(g) = Rest(f)
                /\ (f.waiting \/ f.fighting # None) => g.x = f.x /\ g.y = f.y
                /\ moving(f) => (g.x - f.x) * f.scale_x > 0
        /\ UNCHANGED <<money, timer, cmds, rows, timeouts, texts>>]_vars

\* fighter_movement has run with a waiting fighter, a fighting one and one that
\* moved, the last one of the right side
C12_Witness ==
    /\ last.sys = "fighter_movement"
    /\ \E e \in DOMAIN fighters : fighters[e].waiting
    /\ \E e \in DOMAIN fighters : fighters[e].fighting # None
    /\ \E e \in DOMAIN fighters : moving(fighters[e]) /\ fighters[e].scale_x < 0

----------------------------------------------------------------------------
(* C13 *)

\* the fighters that started with less hp than some other fighter
LowerHp == {e \in DOMAIN fighters :
                \E o \in DOMAIN fighters : fighters[e].skills.hp < fighters[o].skills.hp}

\* the first run of fighting_system has just ended
FirstCycle == last.sys = "fighting_system" /\ frames = 0

\* C13 as stated: after the first cycle the fighter that started with the lower
\* hp has lost at least 1 hp, whatever was rolled.
C13_LowerAlwaysHurt ==
    FirstCycle => \A e \in LowerHp : fighters[e].hp < fighters[e].skills.hp

\* C13, amended: in the first cycle each of the two sends one work item against
\* the other; an attack that hits takes at least 1 hp from its defender, an
\* attack that misses takes none, and a miss can be rolled although the defence
\* is 0, because the attacker's roll may be 0.
C13_HurtUnlessMissed ==
    /\ \A e \in DOMAIN fighters :
        hit_rolls(fighters[e].skills.attack, 0) = {TRUE, FALSE}
    /\ FirstCycle =>
        /\ Len(last.log) = 2
        /\ \A i \in DOMAIN last.log :
            LET d == last.log[i].fought_ent
            IN  /\ d \in DOMAIN fighters
                /\ d # last.log[i].fighter
                /\ last.log[i].kind = "hit" =>
                        last.log[i].dmg >= 1 /\ fighters[d].hp < fighters[d].skills.hp
                /\ last.log[i].kind = "miss" =>
                        \A j \in DOMAIN last.log : last.log[j].fought_ent = d
                                                    => last.log[j].kind = "miss"
        /\ \A e \in DOMAIN fighters :
            fighters[e].hp = saturating_sub(fighters[e].skills.hp, DamageTo(e, last.log))

\* the first cycle has ended with the attack on the lower fighter missed while
\* the lower fighter's own attack hit
C13_Witness ==
    /\ FirstCycle
    /\ \E i, j \in DOMAIN last.log :
        /\ last.log[i].fought_ent \in LowerHp
        /\ last.log[i].kind = "miss"
        /\ last.log[j].fighter = last.log[i].fought_ent
        /\ last.log[j].kind = "hit"

----------------------------------------------------------------------------
(* C14 *)

\* the pairs of same-facing fighters whose boxes overlap, in both orders
Queued == {p \in (DOMAIN fighters) \X (DOMAIN fighters) :
            /\ p[1] # p[2]
            /\ fighters[p[1]].scale_x = fighters[p[2]].scale_x
            /\ collide(fighters[p[1]].x, fighters[p[1]].y,
                       fighters[p[2]].x, fighters[p[2]].y) # "None"}

\* the fighters of the pair that are behind the other in the direction of travel
Rearward(a, b) ==
    {e \in {a, b} : \E o \in {a, b} :
        (fighters[e].x - fighters[o].x) * fighters[e].scale_x < 0}

\* what the closure of collision_system marks when it is given the pair alone
MarkedBy(a, b) ==
    LET st == collision_pair([f |-> fighters, waiting |-> EmptyMap], a, b)
    IN  {e \in DOMAIN st.waiting : st.waiting[e]}

\* C14: when collision_system is about to run, the closure marks exactly one
\* fighter of every overlapping same-facing pair, presented in either order, and
\* where the two differ in x the one it marks is the rearward one.
C14_RearwardWaits ==
    Turn("collision_system") =>
        \A p \in Queued :
            /\ Cardinality(MarkedBy(p[1], p[2])) = 1
            /\ Rearward(p[1], p[2]) # {} => MarkedBy(p[1], p[2]) = Rearward(p[1], p[2])

----------------------------------------------------------------------------
(* C15 *)

\* the fighters some pair of this run of collision_system makes wait
Blocked == UNION {MarkedBy(p[1], p[2]) : p \in Range(PairsOf(rows)) \cap Queued}

\* the fighters that wait from an earlier frame and that no pair makes wait now
Freed == {e \in DOMAIN fighters : fighters[e].waiting /\ e \notin Blocked}

\* C15: a fighter that is waiting when collision_system starts and that no
\* overlapping same-facing pair of this run makes wait is not waiting when the
\* run ends, however many fighters are alive and also when it belongs to no pair
\* or only to overlapping pairs.
C15_WaitingReleased ==
    [][collision_system => \A e \in Freed : ~fighters'[e].waiting]_vars

----------------------------------------------------------------------------
(* C16 *)

\* the fighters the overlapping same-facing pairs of the visit v make wait
MarkedIn(v) == UNION {MarkedBy(p[1], p[2]) : p \in Range(v) \cap Queued}

\* the visits compare_self_mut makes for the orders in which the query can
\* yield the fighters
QueryVisits ==
    {PairsOf([i \in DOMAIN rows |-> rows[p[i]]]) : p \in Perms(DOMAIN rows)}

\* C16: in whatever order the query yields the fighters, and so in whatever
\* order collision_system visits the pairs, every fighter that an overlapping
\* same-facing pair of that visit marks is waiting when the run ends; the pairs
\* in which it overlaps nothing do not clear it.
C16_MarkSurvives ==
    Turn("collision_system") =>
        \A v \in QueryVisits : \A e \in MarkedIn(v) :
            collision_result(fighters, v)[e].waiting

\* a fighter that waits from the frame before is marked by one pair and is a
\* member of another pair that does not overlap
C16_Witness ==
    /\ Turn("collision_system")
    /\ \E e \in MarkedIn(PairsOf(rows)) :
        /\ fighters[e].waiting
        /\ \E p \in Range(PairsOf(rows)) :
            /\ e \in {p[1], p[2]}
            /\ collide(fighters[p[1]].x, fighters[p[1]].y,
                       fighters[p[2]].x, fighters[p[2]].y) = "None"

----------------------------------------------------------------------------
(* C17 *)

\* the defenders that a hit of `log` left at zero hp
Fallen(log) == {log[i].fought_ent : i \in {j \in Items(log, "hit") : log[j].dead}}

\* C17: in a run of fighting_system the two balances together grow by exactly
\* one unit for every defender that dies in it, however many attackers are
\* resolved against that defender, and no attack is resolved, as a hit or as a
\* miss, against a defender whose hp is already zero.
C17_BountyOncePerDeath ==
    [][last'.sys = "fighting_system" =>
        /\ money'.left + money'.right
                = money.left + money.right + Cardinality(Fallen(last'.log))
        /\ \A i \in Items(last'.log, "hit") \cup Items(last'.log, "miss") :
                last'.log[i].hp_before > 0]_vars

----------------------------------------------------------------------------
(* C18 *)

\* the work items of `log` that fighter e sent
SentBy(e, log) == {i \in DOMAIN log : log[i].fighter = e}

\* C18: in a run of fighting_system every fighter sends at most one work item,
\* and only when the frame's delta brings its attack_cooldown to zero and its
\* fighting reference is Some, the item naming that reference; the sender of
\* every resolved item, hit, miss or stale, ends with attack_cooldown =
\* COOLDOWN; every hp is the former hp less the damage of the hits, so a miss
\* changes no hp; between two consecutive items of one fighter at least
\* COOLDOWN of frame time has been counted; and no attack_cooldown is negative
\* when the run ends.
C18_AttackCadence ==
    [][last'.sys = "fighting_system" =>
        LET log == last'.log
        IN  /\ \A e \in DOMAIN fighters : Cardinality(SentBy(e, log)) <= 1
            /\ \A i \in DOMAIN log :
                /\ log[i].fighter \in DOMAIN fighters
                /\ fighters[log[i].fighter].attack_cooldown - delta <= 0
                /\ fighters[log[i].fighter].fighting # None
                /\ fighters[log[i].fighter].fighting = log[i].fought_ent
                /\ fighters'[log[i].fighter].attack_cooldown = COOLDOWN
            /\ \A e \in DOMAIN fighters :
                fighters'[e].hp = saturating_sub(fighters[e].hp, DamageTo(e, log))
            /\ \A e \in DOMAIN attacks' :
                attacks'[e].gap >= 0 => attacks'[e].gap >= COOLDOWN
            /\ \A e \in DOMAIN fighters' : fighters'[e].attack_cooldown >= 0]_vars

\* fighting_system has resolved the second work item of a fighter, a miss
C18_Witness ==
    /\ last.sys = "fighting_system"
    /\ \E i \in DOMAIN last.log :
        /\ last.log[i].kind = "miss"
        /\ attacks[last.log[i].fighter].gap >= COOLDOWN
        /\ fighters[last.log[i].fighter].attack_cooldown = COOLDOWN

----------------------------------------------------------------------------
(* C19 *)

\* the roll outcomes that can be attached to the work item of fighter e: the
\* contested roll and, when it is won, the damage
RollsOf(e) ==
    LET it == WorkItem(e)
    IN  IF it.fought_ent \notin DOMAIN fighters THEN {[won |-> FALSE, dmg |-> 0]}
        ELSE LET fought == fighters[it.fought_ent]
             IN  UNION {IF won
                        THEN {[won |-> TRUE, dmg |-> d] :
                                d \in damage_rolls(it.skills.strength, fought.protection)}
                        ELSE {[won |-> FALSE, dmg |-> 0]} :
                        won \in hit_rolls(it.skills.attack, fought.skills.defence)}

\* the state phase_b_item leads to when the rolls of the item come out as `roll`
Resolved(st, it, roll) ==
    CHOOSE s \in phase_b_item(st, it) :
        LET entry == s.log[Len(s.log)]
        IN  \/ entry.kind = "stale"
            \/ entry.kind = "miss" /\ ~roll.won
            \/ entry.kind = "hit" /\ roll.won /\ entry.dmg = roll.dmg

\* Phase B for the items of the fighters of `order`, sent in that order, each
\* with its rolls
RECURSIVE phase_b_rolled(_, _, _)
phase_b_rolled(st, order, rolls) ==
    IF order = <<>> THEN st
    ELSE phase_b_rolled(Resolved(st, WorkItem(Head(order)), rolls[Head(order)]),
                        Tail(order), rolls)

\* what Phase B leaves: hp, reference and cooldown of every fighter, the
\* balances and the fighters queued for removal
Outcome(order, rolls) ==
    LET st0 == [f |-> [e \in DOMAIN fighters |-> cooled(fighters[e])],
                money |-> money, cmds |-> cmds, nextFx |-> nextFx, log |-> <<>>]
        st == phase_b_rolled(st0, order, rolls)
    IN  [f |-> [e \in DOMAIN st.f |->
                    <<st.f[e].hp, st.f[e].fighting, st.f[e].attack_cooldown>>],
         money |-> st.money,
         removed |-> {st.cmds[i].ent : i \in {j \in DOMAIN st.cmds :
                                                st.cmds[j].op = "despawn"}}]

\* C19: when fighting_system is about to run, for every choice of roll outcomes
\* attached to the work items, Phase B leaves the same hp, references,
\* cooldowns, balances and removals in whatever order Phase A sent the items.
C19_ChannelOrder ==
    Turn("fighting_system") =>
        \A rolls \in [Ready -> UNION {RollsOf(e) : e \in Ready}] :
            (\A e \in Ready : rolls[e] \in RollsOf(e)) =>
                \A o1, o2 \in Perms(Ready) : Outcome(o1, rolls) = Outcome(o2, rolls)

----------------------------------------------------------------------------
(* C20 *)

\* the fighting reference of e before a step; a fighter enters the store with None
Before(e) == IF e \in DOMAIN fighters THEN fighters[e].fighting ELSE None

\* C20: after every step, a fighting reference that is Some names another
\* entity, one that is or has been a fighter and whose facing is or was the
\* opposite of the referring fighter's; a reference is set to Some by
\* collision_system only, to a live fighter of the opposite facing; and a
\* reference is set to None by fighting_system only, by a stale work item, when
\* the fighter it named is no longer in the store.
C20_OpposingReference ==
    [][\A a \in DOMAIN fighters' :
        LET now == fighters'[a].fighting
        IN  /\ now # None =>
                /\ now # a
                /\ now \in DOMAIN faced'
                /\ faced'[now] = -fighters'[a].scale_x
            /\ (now # None /\ now # Before(a)) =>
                /\ last'.sys = "collision_system"
                /\ now \in DOMAIN fighters
                /\ fighters[now].scale_x # fighters[a].scale_x
            /\ (now = None /\ Before(a) # None) =>
                /\ last'.sys = "fighting_system"
                /\ Before(a) \notin DOMAIN fighters
                /\ \E i \in Items(last'.log, "stale") :
                    last'.log[i].fighter = a /\ last'.log[i].fought_ent = Before(a)]_vars

\* fighting_system has just cleared the reference of a fighter to an opponent
\* that has left the store, while two fighters of one side overlap
C20_Witness ==
    /\ last.sys = "fighting_system"
    /\ \E i \in Items(last.log, "stale") :
        /\ fighters[last.log[i].fighter].fighting = None
        /\ last.log[i].fought_ent \in DOMAIN faced \ DOMAIN fighters
        /\ faced[last.log[i].fought_ent] = -fighters[last.log[i].fighter].scale_x
    /\ Queued # {}

====
